---- MODULE Spec2Model ----
(***************************************************************************)
(* Model of src/bot.py: the Telegram transcription bot.                    *)
(*                                                                         *)
(* Handlers are coroutines run by one cooperative event loop: the code     *)
(* between two `await`s is one atomic action, and every `await` is a point *)
(* where other handlers may run and where the awaited call may raise.      *)
(*                                                                         *)
(* Conventions: an optional value (Python None / object) is a sequence of  *)
(* length 0 or 1; a Python str that the code inspects is a sequence of     *)
(* one-character strings.                                                  *)
(***************************************************************************)
EXTENDS Integers, Sequences, FiniteSets, TLC

(***************************************************************************)
(* Bounds of the model.                                                    *)
(***************************************************************************)
\* number of handle_media invocations in the concurrent specification
NumReqs == 2
\* longest declared file name (characters) in the resolver specification
MaxNameLen == 2
\* most segments one model invocation yields in the transcript specification
MaxSegs == 2
\* longest segment text (characters) in the transcript specification
MaxSegLen == 2
\* number of /mode and /lang commands in the configuration specification
MaxCmds == 2

Reqs == 1..NumReqs

None == <<>>
Some(x) == <<x>>
IsSome(o) == Len(o) > 0
Val(o) == o[1]

RECURSIVE SeqsUpTo(_, _)
\* all sequences over S of length at most n
SeqsUpTo(S, n) ==
  IF n = 0 THEN {<<>>}
  ELSE LET shorter == SeqsUpTo(S, n - 1)
       IN  shorter \cup {Append(s, x) : s \in shorter, x \in S}

(***************************************************************************)
(* Python str operations used by the code.                                 *)
(***************************************************************************)
\* str.lower() on one character of the file-name alphabet
LowerChar(c) == IF c = "A" THEN "a" ELSE c

\* str.lower()
Lower(s) == [i \in 1..Len(s) |-> LowerChar(s[i])]

\* s.split(".")[-1]: what follows the last "." (all of s when it has none)
LastDotPart(s) ==
  LET dots == {i \in 1..Len(s) : s[i] = "."}
      last == IF dots = {} THEN 0 ELSE CHOOSE i \in dots : \A j \in dots : j <= i
  IN  SubSeq(s, last + 1, Len(s))

\* `sub in s` for str
Contains(s, sub) ==
  \E i \in 1..(Len(s) - Len(sub) + 1) : SubSeq(s, i, i + Len(sub) - 1) = sub

\* Python truthiness of an optional str: None and "" are falsy
Truthy(o) == IsSome(o) /\ Len(Val(o)) > 0

\* str.strip() strips white space; the text alphabet has one white-space character
IsSpace(c) == c = " "

RECURSIVE LStrip(_)
LStrip(s) == IF s # <<>> /\ IsSpace(Head(s)) THEN LStrip(Tail(s)) ELSE s

RECURSIVE RStrip(_)
RStrip(s) ==
  IF s # <<>> /\ IsSpace(s[Len(s)]) THEN RStrip(SubSeq(s, 1, Len(s) - 1)) ELSE s

Strip(s) == RStrip(LStrip(s))

RECURSIVE JoinSpaced(_)
\* " ".join(...): a separator between the segments
JoinSpaced(segs) ==
  IF segs = <<>> THEN <<>>
  ELSE IF Len(segs) = 1 THEN Head(segs)
  ELSE Head(segs) \o <<" ">> \o JoinSpaced(Tail(segs))

RECURSIVE Join(_)
\* "".join(seg.text for seg in segments)
Join(segs) == IF segs = <<>> THEN <<>> ELSE Head(segs) \o Join(Tail(segs))

(***************************************************************************)
(* String literals of the code.                                            *)
(***************************************************************************)
Str_ogg == <<"o", "g", "g">>
Str_mp3 == <<"m", "p", "3">>
Str_mp4 == <<"m", "p", "4">>
Str_audio == <<"a", "u", "d", "i", "o">>

\* the reply texts (glosses of the Hebrew literals)
NoMediaMsg == <<"send me a voice / audio / video message to transcribe">>
NoFfmpegMsg == <<"FFmpeg is not installed on the server">>
ConvErrorMsg == <<"audio conversion error">>
NoTextPlaceholder == <<"(no text detected)">>

\* the text alone, without the header line
UnstampedReply(stamp, text) == text

\* f"<memo> {stamp}\n{text}"
FormatReply(stamp, text) == <<"memo ", stamp, "\n">> \o text

\* the part of a transcript reply after the header line
ReplyBody(reply) == SubSeq(reply, 4, Len(reply))
IsTranscriptReply(reply) == Len(reply) >= 3 /\ reply[1] = "memo "

(***************************************************************************)
(* Inputs.                                                                 *)
(***************************************************************************)
NameAlphabet == {"A", "a", "."}
TextAlphabet == {" ", "a", "b"}

Str_audio_ogg == Str_audio \o <<"/", "o", "g", "g">>
Str_x_audio == <<"x", "-">> \o Str_audio
Str_video_mp4 == <<"v", "i", "d", "e", "o", "/", "m", "p", "4">>

\* declared MIME types of a document: absent, or one of these strings
MimeTypes == {None, Some(<<>>), Some(Str_audio_ogg), Some(Str_x_audio), Some(Str_video_mp4)}

\* declared file names: absent, or a string (possibly empty)
FileNames(n) == {None} \cup {Some(s) : s \in SeqsUpTo(NameAlphabet, n)}

\* telegram.Message, as far as handle_media reads it
Messages(n) ==
  [voice : BOOLEAN,
   audio : {None} \cup {Some([file_name |-> f]) : f \in FileNames(n)},
   video : BOOLEAN,
   document : {None} \cup {Some([mime_type |-> t, file_name |-> f]) :
                             t \in MimeTypes, f \in FileNames(n)}]

\* update.message: None or a message
AllUpdates == {None} \cup {Some(m) : m \in Messages(MaxNameLen)}

NoAttachment == [voice |-> FALSE, audio |-> None, video |-> FALSE, document |-> None]

\* the updates of the concurrent specification: no message, a message without
\* media, and a voice note
SampleUpdates ==
  {None, Some(NoAttachment), Some([NoAttachment EXCEPT !.voice = TRUE])}

\* segment texts yielded by one whisper.transcribe call
AllSegments == SeqsUpTo(SeqsUpTo(TextAlphabet, MaxSegLen), MaxSegs)
SampleSegments == {<<>>, << <<" ", "a">>, <<"b", " ">> >>}

\* values of datetime.now().strftime(...)
Stamps == {"2026-11-03 10:00"}

\* values the environment can give MODE and TARGET_LANG at start-up
StartupModes == {"transcribe", "translate", "loud"}
StartupLangs == {"he", ""}

\* context.args of /mode and /lang
ModeArgs == {<<>>, <<"transcribe">>, <<"translate">>, <<"loud">>}
LangArgs == {<<>>, <<"he">>}

(***************************************************************************)
(* State.                                                                  *)
(***************************************************************************)
VARIABLES
  MODE,            \* global MODE (line 21)
  TARGET_LANG,     \* global TARGET_LANG (line 20)
  model,           \* global model (line 23): None or the WhisperModel handle
  constructCalls,  \* number of WhisperModel(...) calls made so far
  constructFails,  \* number of those that raised
  installed,       \* executables shutil.which finds on PATH
  fs,              \* the temporary directories that exist, with their files
  mkdtemps,        \* number of temporary directories created so far
  req,             \* per handle_media invocation: its locals and what it did
  trail,           \* history: the commands handled, with the configuration
                   \* each found (kept by the configuration specification)
  startCfg         \* history: <<MODE, TARGET_LANG>> when request 1 was started
                   \* (kept by the configuration specification)

vars == <<MODE, TARGET_LANG, model, constructCalls, constructFails, installed,
          fs, mkdtemps, req, trail, startCfg>>

\* the history variables: the program neither reads nor writes them; a
\* specification says with its command and arrival steps whether it keeps them
history == <<trail, startCfg>>

IdleReq ==
  [pc |-> "idle",            \* position: idle, an await, done or failed
   msg |-> None,             \* update.message
   tg_file |-> None,         \* the fetched telegram File (line 73/76/79/82)
   suggested_ext |-> Str_ogg,\* line 71
   td |-> None,              \* the TemporaryDirectory of line 88
   returncode |-> None,      \* proc.returncode (line 105)
   whisper |-> None,         \* line 109
   task |-> None,            \* line 110
   language |-> None,        \* the language argument of line 113
   audio |-> None,           \* content of the file passed to transcribe (line 112)
   segments |-> None,        \* what the model yielded
   text |-> None,            \* line 118, before the placeholder
   fetched |-> <<>>,         \* attachments get_file() was called on, in order
   downloads |-> 0,          \* download_to_drive() calls made
   stages |-> <<>>,          \* the pipeline stages entered, in order
   spawned |-> 0,            \* ffmpeg subprocesses spawned
   replies |-> <<>>]         \* texts passed to msg.reply_text, in order

EmptyDir == [in |-> None, out |-> None]

Terminal(r) == req[r].pc \in {"done", "failed"}
InFlight(r) == req[r].pc \notin {"idle", "done", "failed"}

(***************************************************************************)
(* get_model (lines 25-29).                                                *)
(***************************************************************************)
\* WhisperModel(...) returns a new object each time it is called: the n-th
\* call's object is named n
NewHandle(calls) == calls + 1

\* get_model without the `if model is None` test: constructs on every call
get_model_uncached(cache, calls, ok) ==
  IF ok
  THEN [model |-> Some(NewHandle(calls)), ret |-> Some(NewHandle(calls)),
        calls |-> calls + 1, raised |-> FALSE]
  ELSE [model |-> cache, ret |-> None, calls |-> calls + 1, raised |-> TRUE]

\* get_model that caches a half-built object before the constructor raises
get_model_caches_failure(cache, calls, ok) ==
  IF cache = None
  THEN IF ok
       THEN [model |-> Some(NewHandle(calls)), ret |-> Some(NewHandle(calls)),
             calls |-> calls + 1, raised |-> FALSE]
       ELSE [model |-> Some(0), ret |-> None, calls |-> calls + 1, raised |-> TRUE]
  ELSE [model |-> cache, ret |-> cache, calls |-> calls, raised |-> FALSE]

\* get_model() with the cache holding `cache`, after `calls` constructor calls,
\* the constructor succeeding iff `ok`: the new cache, the returned handle
\* (None when the constructor raised) and the constructor calls made
get_model(cache, calls, ok) ==
  IF cache = None
  THEN IF ok
       THEN [model |-> Some(NewHandle(calls)), ret |-> Some(NewHandle(calls)),
             calls |-> calls + 1, raised |-> FALSE]
       ELSE [model |-> cache, ret |-> None, calls |-> calls + 1, raised |-> TRUE]
  ELSE [model |-> cache, ret |-> cache, calls |-> calls, raised |-> FALSE]

(***************************************************************************)
(* ffmpeg_available (lines 61-63).                                         *)
(***************************************************************************)
\* ffmpeg_available that never finds the tool missing
ffmpeg_assumed(path) == TRUE

ffmpeg_available(path) == "ffmpeg" \in path

(***************************************************************************)
(* The attachment chosen by lines 72-86 and its extension.                 *)
(***************************************************************************)
\* line 81 without the MIME test
IsAnyDocument(m) == IsSome(m.document)

\* the condition of line 81
IsAudioDocument(m) ==
  /\ IsSome(m.document)
  /\ Truthy(Val(m.document).mime_type)
  /\ Contains(Val(Val(m.document).mime_type), Str_audio)

\* the chain with the audio test ahead of the voice test
SelectKindAudioFirst(m) ==
  IF IsSome(m.audio) THEN "audio"
  ELSE IF m.voice THEN "voice"
  ELSE IF m.video THEN "video"
  ELSE IF IsAudioDocument(m) THEN "document"
  ELSE "none"

\* the branch of the if/elif chain of lines 72-86 that message m takes
SelectKind(m) ==
  IF m.voice THEN "voice"
  ELSE IF IsSome(m.audio) THEN "audio"
  ELSE IF m.video THEN "video"
  ELSE IF IsAudioDocument(m) THEN "document"
  ELSE "none"

\* `file_name or "audio"`
NameOrAudio(file_name) == IF Truthy(file_name) THEN Val(file_name) ELSE Str_audio

\* line 77
AudioExt(file_name) ==
  IF Truthy(file_name) THEN Lower(LastDotPart(NameOrAudio(file_name))) ELSE Str_mp3

\* line 83
DocumentExt(file_name) == Lower(LastDotPart(NameOrAudio(file_name)))

\* suggested_ext as assigned in the branch `kind` (lines 74, 77, 80, 83)
SuggestedExt(kind, m) ==
  CASE kind = "voice" -> Str_ogg
    [] kind = "audio" -> AudioExt(Val(m.audio).file_name)
    [] kind = "video" -> Str_mp4
    [] kind = "document" -> DocumentExt(Val(m.document).file_name)

(***************************************************************************)
(* Lines 110, 113 and 118-122.                                             *)
(***************************************************************************)
\* the mode passed on as the task, whatever it is
TaskAsMode(mode) == mode

\* line 110
Task(mode) == IF mode = "translate" THEN "translate" ELSE "transcribe"

\* line 113: None if not TARGET_LANG else TARGET_LANG
Language(lang) == IF lang = "" THEN None ELSE Some(lang)

\* line 118
JoinedText(segs) == Strip(Join(segs))

\* lines 119-120 left out
TextAsIs(text) == text

\* lines 119-120
TextOrPlaceholder(text) == IF text = <<>> THEN NoTextPlaceholder ELSE text

(***************************************************************************)
(* The temporary directory (line 88).                                      *)
(***************************************************************************)
\* a directory name that is always the same
FixedDirName(made) == 1

\* the name TemporaryDirectory() gives its directory, `made` directories having
\* been made before: one that no directory has (names are creation ordinals)
NewDirName(made) == made + 1

\* the file system after TemporaryDirectory() created directory d
MakeDir(files, d) ==
  [x \in DOMAIN files \cup {d} |-> IF x = d THEN EmptyDir ELSE files[x]]

\* a directory object whose __exit__ removes nothing
KeepDir(files, d) == files

\* the file system after TemporaryDirectory.__exit__ of directory d
RemoveDir(files, d) == [x \in DOMAIN files \ {d} |-> files[x]]

\* leaving without removing the directory (mkdtemp in place of the with block)
ExitKeepingDir(files, td) == files

\* the file system when a handler whose `td` is as given leaves handle_media,
\* by return or by exception: inside the with block the directory is removed
ExitWith(files, td) == IF IsSome(td) THEN RemoveDir(files, Val(td)) ELSE files

WriteFile(files, d, name, content) ==
  [files EXCEPT ![d] = [@ EXCEPT ![name] = Some(content)]]

\* the payload behind an attachment of a request, and its transcoding
Payload(r, kind) == [request |-> r, attachment |-> kind]
Wav(payload) == [wav_of |-> payload]

(***************************************************************************)
(* handle_media (lines 65-122), one action per stretch between awaits.     *)
(***************************************************************************)
SetReq(r, new) == req' = [req EXCEPT ![r] = new]

\* The stage a handler is in once it has left handle_media: Done when it
\* returned after sending the transcript reply (line 122), Failed on every
\* other way out (an exception, or the return after a guidance reply); a
\* handler called without a message (line 68) never entered the pipeline.
ExitStage(rec, how) ==
  IF how = "done" /\ rec.stages # <<>> /\ rec.stages[Len(rec.stages)] = "Formatting"
  THEN "Done"
  ELSE IF rec.stages = <<>> THEN "NoRequest"
  ELSE "Failed"

\* A handler that has left handle_media: its frame and locals are gone; what
\* stays is the update it was given and what it did (the directory it made,
\* the calls it made, the replies it sent).
Left(rec, how) ==
  [IdleReq EXCEPT !.pc = how, !.msg = rec.msg, !.td = rec.td,
                  !.fetched = rec.fetched, !.downloads = rec.downloads,
                  !.spawned = rec.spawned, !.replies = rec.replies,
                  !.stages = Append(rec.stages, ExitStage(rec, how))]

\* Lines 66-86 up to the first await: the handler is called with update.message
\* = m; requests are numbered in the order they arrive.
Start(r, m) ==
  /\ req[r].pc = "idle"
  /\ \A q \in Reqs : q < r => req[q].pc # "idle"
  /\ IF ~IsSome(m)
     THEN \* lines 67-68
          SetReq(r, Left([req[r] EXCEPT !.msg = m], "done"))
     ELSE LET kind == SelectKind(Val(m))
          IN  IF kind = "none"
              THEN \* line 85
                   SetReq(r, [req[r] EXCEPT !.pc = "reply", !.msg = m,
                                            !.stages = Append(@, "Resolving"),
                                            !.replies = Append(@, NoMediaMsg)])
              ELSE \* line 73, 76, 79 or 82: get_file() is called
                   SetReq(r, [req[r] EXCEPT !.pc = "get_file", !.msg = m,
                                            !.stages = Append(@, "Resolving"),
                                            !.fetched = Append(@, kind)])
  /\ UNCHANGED <<MODE, TARGET_LANG, model, constructCalls, constructFails,
                 installed, fs, mkdtemps>>

\* get_file() returns; lines 74/77/80/83 and 88-91 up to the download await
GetFileReturns(r) ==
  /\ req[r].pc = "get_file"
  /\ LET m == Val(req[r].msg)
         kind == SelectKind(m)
         d == NewDirName(mkdtemps)
     IN  /\ mkdtemps' = mkdtemps + 1
         /\ fs' = MakeDir(fs, d)
         /\ SetReq(r, [req[r] EXCEPT !.pc = "download",
                                     !.stages = Append(@, "Downloading"),
                                     !.downloads = @ + 1,
                                     !.tg_file = Some(Payload(r, kind)),
                                     !.suggested_ext = SuggestedExt(kind, m),
                                     !.td = Some(d)])
  /\ UNCHANGED <<MODE, TARGET_LANG, model, constructCalls, constructFails, installed, history>>

\* download_to_drive() returns; lines 93-103 up to the next await
DownloadReturns(r) ==
  /\ req[r].pc = "download"
  /\ fs' = WriteFile(fs, Val(req[r].td), "in", Val(req[r].tg_file))
  /\ IF ~ffmpeg_available(installed)
     THEN \* line 94
          SetReq(r, [req[r] EXCEPT !.pc = "reply", !.replies = Append(@, NoFfmpegMsg)])
     ELSE \* line 103: create_subprocess_exec is called
          SetReq(r, [req[r] EXCEPT !.pc = "spawn",
                                   !.stages = Append(@, "Transcoding")])
  /\ UNCHANGED <<MODE, TARGET_LANG, model, constructCalls, constructFails,
                 installed, mkdtemps, history>>

\* create_subprocess_exec() returns the started process (the executable must
\* still be there to be started); line 104 up to the await
SpawnReturns(r) ==
  /\ req[r].pc = "spawn"
  /\ "ffmpeg" \in installed
  /\ SetReq(r, [req[r] EXCEPT !.pc = "communicate", !.spawned = @ + 1])
  /\ UNCHANGED <<MODE, TARGET_LANG, model, constructCalls, constructFails,
                 installed, fs, mkdtemps, history>>

\* line 105 without the test of the output file
ExitStatusFailed(returncode, out_exists) == returncode # 0

\* line 105 never taking the failure branch
NeverFailed(returncode, out_exists) == FALSE

\* the condition of line 105
TranscodeFailed(returncode, out_exists) == returncode # 0 \/ ~out_exists

\* the configuration as it was when the handler was called
ConfigAtArrival == IF IsSome(startCfg) THEN Val(startCfg) ELSE <<MODE, TARGET_LANG>>

\* the mode as it is now with the language as it was when the handler was called
ConfigTorn == <<MODE, ConfigAtArrival[2]>>

\* what lines 110 and 113 read: the globals MODE and TARGET_LANG as they are
\* when the lines run
ConfigRead == <<MODE, TARGET_LANG>>

\* lines 109-117 with the inference awaited in another thread: the handler is
\* suspended holding the model handle, its segments not yet consumed
TranscribeOffloaded(r, returncode, files, construct_ok, segs, stamp) ==
  LET gm == get_model(model, constructCalls, construct_ok)
  IN  /\ model' = gm.model
      /\ constructCalls' = gm.calls
      /\ constructFails' = constructFails + (IF gm.raised THEN 1 ELSE 0)
      /\ fs' = files
      /\ SetReq(r, [req[r] EXCEPT !.pc = "inference",
                                  !.returncode = Some(returncode),
                                  !.stages = Append(@, "Transcribing"),
                                  !.whisper = gm.ret])

\* Lines 109-122 up to the reply await, for a request whose transcoding
\* succeeded with exit status `returncode`, on file system `files`: no await,
\* so one step.  construct_ok:
\* whether WhisperModel(...) succeeds if called; segs: what the model yields,
\* None when transcribe or the iteration of its segments raises.
Transcribe(r, returncode, files, construct_ok, segs, stamp) ==
  LET gm == get_model(model, constructCalls, construct_ok)
      td == req[r].td
  IN  /\ model' = gm.model
      /\ constructCalls' = gm.calls
      /\ constructFails' = constructFails + (IF gm.raised THEN 1 ELSE 0)
      /\ IF gm.raised
         THEN \* line 109 raises: the with block is left
              /\ fs' = ExitWith(files, td)
              /\ SetReq(r, Left([req[r] EXCEPT !.stages = Append(@, "Transcribing")],
                                "failed"))
         ELSE LET called == [req[r] EXCEPT !.returncode = Some(returncode),
                                           !.stages = Append(@, "Transcribing"),
                                           !.whisper = gm.ret,
                                           !.task = Some(Task(ConfigRead[1])),
                                           !.language = Some(Language(ConfigRead[2])),
                                           !.audio = files[Val(td)].out]
              IN  IF ~IsSome(segs)
                  THEN \* lines 111-118 raise
                       /\ fs' = ExitWith(files, td)
                       /\ SetReq(r, Left(called, "failed"))
                  ELSE LET text == JoinedText(Val(segs))
                       IN  /\ fs' = files
                           /\ SetReq(r, [called EXCEPT
                                !.pc = "reply",
                                !.stages = Append(@, "Formatting"),
                                !.segments = segs,
                                !.text = Some(text),
                                !.replies = Append(@,
                                   FormatReply(stamp, TextOrPlaceholder(text)))])

\* proc.communicate() returns with the process's exit status and ffmpeg
\* having written out.wav or not; lines 105-122 up to the reply await
CommunicateReturns(r, returncode, out_exists, construct_ok, segs, stamp) ==
  /\ req[r].pc = "communicate"
  /\ LET d == Val(req[r].td)
         files == IF out_exists
                  THEN WriteFile(fs, d, "out", Wav(Val(fs[d].in)))
                  ELSE fs
     IN  IF TranscodeFailed(returncode, out_exists)
         THEN \* line 106
              /\ fs' = files
              /\ SetReq(r, [req[r] EXCEPT !.pc = "reply",
                                          !.returncode = Some(returncode),
                                          !.replies = Append(@, ConvErrorMsg)])
              /\ UNCHANGED <<model, constructCalls, constructFails>>
         ELSE Transcribe(r, returncode, files, construct_ok, segs, stamp)
  /\ UNCHANGED <<MODE, TARGET_LANG, installed, mkdtemps, history>>

\* reply_text() returns: the handler returns (lines 86, 95, 107, 122)
ReplyReturns(r) ==
  /\ req[r].pc = "reply"
  /\ fs' = ExitWith(fs, req[r].td)
  /\ SetReq(r, Left(req[r], "done"))
  /\ UNCHANGED <<MODE, TARGET_LANG, model, constructCalls, constructFails,
                 installed, mkdtemps, history>>

\* a failed download_to_drive swallowed: the handler goes on to line 93
AwaitRaisesSwallowed(r) ==
  /\ req[r].pc \in {"get_file", "download", "spawn", "communicate", "reply"}
  /\ IF req[r].pc = "download"
     THEN /\ fs' = fs
          /\ SetReq(r, [req[r] EXCEPT !.pc = "spawn",
                                      !.stages = Append(@, "Transcoding")])
     ELSE /\ fs' = ExitWith(fs, req[r].td)
          /\ SetReq(r, Left(req[r], "failed"))
  /\ UNCHANGED <<MODE, TARGET_LANG, model, constructCalls, constructFails,
                 installed, mkdtemps, history>>

\* the call a request awaits raises (network error, OSError, cancellation):
\* the exception leaves handle_media, through the with block if it is inside
AwaitRaises(r) ==
  /\ req[r].pc \in {"get_file", "download", "spawn", "communicate", "reply"}
  /\ fs' = ExitWith(fs, req[r].td)
  /\ SetReq(r, Left(req[r], "failed"))
  /\ UNCHANGED <<MODE, TARGET_LANG, model, constructCalls, constructFails,
                 installed, mkdtemps, history>>

(***************************************************************************)
(* The commands and the environment.                                       *)
(***************************************************************************)
\* lines 47-48 taking any first argument
AnyMode(mode, args) == IF args # <<>> THEN args[1] ELSE mode

\* MODE after /mode with context.args = args (lines 47-48)
NewMode(mode, args) ==
  IF args # <<>> /\ args[1] \in {"transcribe", "translate"} THEN args[1] ELSE mode

\* TARGET_LANG after /lang with context.args = args (lines 55-56)
NewLang(lang, args) == IF args # <<>> THEN args[1] ELSE lang

\* mode_cmd (lines 45-51); its reply changes no state
mode_cmd(args) ==
  /\ MODE' = NewMode(MODE, args)
  /\ UNCHANGED <<TARGET_LANG, model, constructCalls, constructFails, installed,
                 fs, mkdtemps, req>>

\* lang_cmd (lines 53-59); its reply changes no state
lang_cmd(args) ==
  /\ TARGET_LANG' = NewLang(TARGET_LANG, args)
  /\ UNCHANGED <<MODE, model, constructCalls, constructFails, installed,
                 fs, mkdtemps, req>>

\* ffmpeg is installed on or removed from the host while the bot runs
PathChanges ==
  /\ installed' = IF "ffmpeg" \in installed THEN {} ELSE {"ffmpeg"}
  /\ UNCHANGED <<MODE, TARGET_LANG, model, constructCalls, constructFails,
                 fs, mkdtemps, req, history>>

(***************************************************************************)
(* Specifications.                                                         *)
(***************************************************************************)
InitWith(modes, langs) ==
  /\ MODE \in modes
  /\ TARGET_LANG \in langs
  /\ model = None
  /\ constructCalls = 0
  /\ constructFails = 0
  /\ installed \in {{}, {"ffmpeg"}}
  /\ fs = << >>
  /\ mkdtemps = 0
  /\ req = [r \in Reqs |-> IdleReq]
  /\ trail = <<>>
  /\ startCfg = None

Init == InitWith(StartupModes, StartupLangs)

ModelOutcomes(segments) == {None} \cup {Some(s) : s \in segments}

\* a handler is called with one of `updates`
Arrive(r, updates) ==
  /\ req[r].pc = "idle"
  /\ \E m \in updates : Start(r, m)

\* the ffmpeg process of request r ends, the model yielding one of `outcomes`
Transcoded(r, outcomes) ==
  /\ req[r].pc = "communicate"
  /\ \E returncode \in {0, 1}, out_exists \in BOOLEAN, construct_ok \in BOOLEAN,
        segs \in outcomes, stamp \in Stamps :
       CommunicateReturns(r, returncode, out_exists, construct_ok, segs, stamp)

\* the arrival and command steps of a specification that keeps no history
Request(r, updates) == Arrive(r, updates) /\ UNCHANGED history
ModeCommand(args) == mode_cmd(args) /\ UNCHANGED history
LangCommand(args) == lang_cmd(args) /\ UNCHANGED history

SampleOutcomes == ModelOutcomes(SampleSegments)
AllOutcomes == ModelOutcomes(AllSegments)

\* concurrent requests and commands, on a host whose PATH stays as it was at
\* start-up (with or without ffmpeg)
Next ==
  \/ \E r \in Reqs : Request(r, SampleUpdates)
  \/ \E r \in Reqs : GetFileReturns(r)
  \/ \E r \in Reqs : DownloadReturns(r)
  \/ \E r \in Reqs : SpawnReturns(r)
  \/ \E r \in Reqs : Transcoded(r, SampleOutcomes)
  \/ \E r \in Reqs : ReplyReturns(r)
  \/ \E r \in Reqs : AwaitRaises(r)
  \/ \E args \in ModeArgs : ModeCommand(args)
  \/ \E args \in LangArgs : LangCommand(args)

Spec == Init /\ [][Next]_vars

\* one request, over every message the resolver can be given
InitDefault == InitWith({"transcribe"}, {"he"})

NextResolver ==
  \/ Request(1, AllUpdates)
  \/ GetFileReturns(1)
  \/ DownloadReturns(1)
  \/ SpawnReturns(1)
  \/ Transcoded(1, SampleOutcomes)
  \/ ReplyReturns(1)
  \/ AwaitRaises(1)

SpecResolver == InitDefault /\ [][NextResolver]_vars

\* one request for a voice note, over every segment sequence the model can
\* yield, on a host where ffmpeg may come and go
NextTranscript ==
  \/ Request(1, {Some([NoAttachment EXCEPT !.voice = TRUE])})
  \/ GetFileReturns(1)
  \/ DownloadReturns(1)
  \/ SpawnReturns(1)
  \/ Transcoded(1, AllOutcomes)
  \/ ReplyReturns(1)
  \/ AwaitRaises(1)
  \/ PathChanges

SpecTranscript == InitDefault /\ [][NextTranscript]_vars

\* The arrival and command steps of the configuration specification, which
\* keeps the history: what the configuration was when request 1 was started
\* and when each command was handled.
TracedRequest(r, updates) ==
  /\ Arrive(r, updates)
  /\ startCfg' = Some(<<MODE, TARGET_LANG>>)
  /\ UNCHANGED trail

Logged(cmd, args) ==
  Append(trail, [cmd |-> cmd, args |-> args, mode |-> MODE, lang |-> TARGET_LANG,
                 pc |-> req[1].pc])

TracedModeCommand(args) ==
  /\ Len(trail) < MaxCmds
  /\ mode_cmd(args)
  /\ trail' = Logged("mode", args)
  /\ UNCHANGED startCfg

TracedLangCommand(args) ==
  /\ Len(trail) < MaxCmds
  /\ lang_cmd(args)
  /\ trail' = Logged("lang", args)
  /\ UNCHANGED startCfg

\* one request for a voice note and at most MaxCmds commands, in any order
NextConfig ==
  \/ TracedRequest(1, {Some([NoAttachment EXCEPT !.voice = TRUE])})
  \/ GetFileReturns(1)
  \/ DownloadReturns(1)
  \/ SpawnReturns(1)
  \/ Transcoded(1, SampleOutcomes)
  \/ ReplyReturns(1)
  \/ AwaitRaises(1)
  \/ \E args \in ModeArgs : TracedModeCommand(args)
  \/ \E args \in LangArgs : TracedLangCommand(args)

SpecConfig == Init /\ [][NextConfig]_vars

\* what the model yields in the fair specification: a failure, or no segment
FairOutcomes == ModelOutcomes({<<>>})

\* A call that request r awaits returns or raises.
Progress(r) ==
  \/ GetFileReturns(r)
  \/ DownloadReturns(r)
  \/ SpawnReturns(r)
  \/ Transcoded(r, FairOutcomes)
  \/ ReplyReturns(r)
  \/ AwaitRaises(r)

\* concurrent requests and the commands that change the configuration
NextFair ==
  \/ \E r \in Reqs : Request(r, SampleUpdates)
  \/ \E r \in Reqs : GetFileReturns(r)
  \/ \E r \in Reqs : DownloadReturns(r)
  \/ \E r \in Reqs : SpawnReturns(r)
  \/ \E r \in Reqs : Transcoded(r, FairOutcomes)
  \/ \E r \in Reqs : ReplyReturns(r)
  \/ \E r \in Reqs : AwaitRaises(r)
  \/ \E args \in {<<"translate">>, <<"transcribe">>} : ModeCommand(args)
  \/ \E args \in {<<"he">>} : LangCommand(args)

\* the default mode, no language yet
InitFair == InitWith({"transcribe"}, {""})

\* Every awaited call eventually returns or raises: the event loop resumes a
\* handler whose await is over.
SpecFair ==
  /\ InitFair
  /\ [][NextFair]_vars
  /\ \A r \in Reqs : WF_vars(Progress(r))

(***************************************************************************)
(* Properties.                                                             *)
(***************************************************************************)
LastReply(r) == req[r].replies[Len(req[r].replies)]
Replied(r, text) == req[r].replies # <<>> /\ LastReply(r) = text

\* C1: the temporary directory of a request that has ended no longer exists,
\* whatever the exit path and whatever other requests and commands did; so
\* with no request in flight no temporary directory exists.
C1_DirectoryReleased ==
  /\ \A r \in Reqs :
       Terminal(r) /\ IsSome(req[r].td) => Val(req[r].td) \notin DOMAIN fs
  /\ (\A r \in Reqs : ~InFlight(r)) => DOMAIN fs = {}

\* one request ended by an exception after its ffmpeg ran, another returned
\* after its transcript reply, both having had a directory
C1_Witness ==
  \E r, q \in Reqs :
    /\ req[r].pc = "failed" /\ IsSome(req[r].td) /\ req[r].spawned = 1
    /\ req[q].pc = "done" /\ IsSome(req[q].td)
    /\ req[q].replies # <<>> /\ IsTranscriptReply(LastReply(q))

\* C2: as long as no construction has failed, WhisperModel(...) has been
\* called once if any get_model() call was made (never more), every handle a
\* request holds is the cached one, and a set cache never changes.
C2_StateOk ==
  constructFails = 0 =>
    /\ constructCalls = (IF model = None THEN 0 ELSE 1)
    /\ \A r \in Reqs : IsSome(req[r].whisper) => req[r].whisper = model

C2_ModelConstructedOnce ==
  /\ []C2_StateOk
  /\ [][model # None => model' = model]_vars

\* two requests hold the handle of the single construction
C2_Witness ==
  /\ constructFails = 0
  /\ constructCalls = 1
  /\ \E r, q \in Reqs : r # q /\ req[r].whisper = model /\ req[q].whisper = model
                        /\ model # None

\* the request that called get_model() in this step, the constructor raising
ConstructionFailedFor(r) ==
  /\ constructFails' = constructFails + 1
  /\ req[r].pc = "communicate"
  /\ req'[r].pc # "communicate"

\* C3: when the construction inside get_model() fails the cache stays None and
\* the request that triggered it fails (no reply, no handle); a request that
\* gets a handle while the cache is None gets it from a new construction, and
\* a handle held is never anything but the cached, constructed model.
C3_Step ==
  /\ constructFails' > constructFails =>
       /\ model = None /\ model' = None
       /\ \E r \in Reqs :
            /\ ConstructionFailedFor(r)
            /\ req'[r].pc = "failed"
            /\ req'[r].replies = req[r].replies
            /\ req'[r].whisper = None
  /\ \A r \in Reqs :
       ~IsSome(req[r].whisper) /\ IsSome(req'[r].whisper) =>
         /\ req'[r].whisper = model'
         /\ model = None => constructCalls' = constructCalls + 1

C3_FailedConstructionRetried == [][C3_Step]_vars

\* a construction failed and a later get_model() call constructed the model
C3_Witness ==
  /\ constructFails = 1
  /\ constructCalls = 2
  /\ \E r, q \in Reqs : /\ req[r].pc = "failed" /\ req[r].spawned = 1
                        /\ IsSome(req[q].whisper) /\ req[q].whisper = model

\* the transcoding of request r is over and its result is in its locals
TranscodeOver(r) == IsSome(req[r].returncode)
OutWavExists(r) == IsSome(fs[Val(req[r].td)].out)

\* C4: after transcoding, the request goes on to the model only if the exit
\* status is zero and out.wav exists; in both failure cases its only reply is
\* the conversion-error message, it holds no model handle, passed no audio to
\* the model, and the step that found the failure touched neither the cache
\* nor the constructor; it then ends with that reply as its only one.
C4_StateOk ==
  \A r \in Reqs :
    TranscodeOver(r) =>
      IF Val(req[r].returncode) # 0 \/ ~OutWavExists(r)
      THEN /\ req[r].replies = <<ConvErrorMsg>>
           /\ req[r].whisper = None /\ req[r].audio = None
           /\ req[r].segments = None /\ req[r].task = None
      ELSE /\ req[r].replies # <<ConvErrorMsg>>
           /\ IsSome(req[r].whisper)

C4_Step ==
  \A r \in Reqs :
    /\ ~Replied(r, ConvErrorMsg) /\ Replied(r, ConvErrorMsg)' =>
         model' = model /\ constructCalls' = constructCalls
    /\ Replied(r, ConvErrorMsg) =>
         /\ req'[r].replies = req[r].replies
         /\ req'[r].pc \in {"reply", "done", "failed"}
         /\ req'[r].whisper = None

C4_TranscodeFailureStops == []C4_StateOk /\ [][C4_Step]_vars

\* one request failed by exit status, another by a missing out.wav
C4_Witness ==
  \E r, q \in Reqs :
    /\ TranscodeOver(r) /\ Val(req[r].returncode) = 1 /\ Replied(r, ConvErrorMsg)
    /\ TranscodeOver(q) /\ Val(req[q].returncode) = 0 /\ ~OutWavExists(q)
    /\ Replied(q, ConvErrorMsg)

\* C5: a request whose check (made when its download returns) finds no ffmpeg
\* replies with the tool-unavailable message and stops: in that step the model
\* is not touched, and from then on the request has that one reply, has
\* spawned no subprocess, holds no model handle and passed nothing to the
\* model; once it has ended its directory is gone.
C5_StateOk ==
  \A r \in Reqs :
    Replied(r, NoFfmpegMsg) =>
      /\ req[r].replies = <<NoFfmpegMsg>>
      /\ req[r].spawned = 0
      /\ req[r].whisper = None /\ req[r].audio = None /\ req[r].segments = None
      /\ IsSome(req[r].td)
      /\ Terminal(r) => Val(req[r].td) \notin DOMAIN fs

C5_Step ==
  \A r \in Reqs :
    /\ ( /\ req[r].pc = "download"
         /\ req'[r].pc \notin {"download", "failed"}
         /\ "ffmpeg" \notin installed )
       => /\ req'[r].pc = "reply"
          /\ req'[r].replies = <<NoFfmpegMsg>>
          /\ model' = model /\ constructCalls' = constructCalls
    /\ Replied(r, NoFfmpegMsg) =>
         /\ req'[r].replies = req[r].replies
         /\ req'[r].pc \in {"reply", "done", "failed"}

C5_ToolMissingStops == []C5_StateOk /\ [][C5_Step]_vars

\* a request returned after the tool-unavailable reply, its directory gone,
\* although ffmpeg has been installed since its check
C5_Witness ==
  /\ "ffmpeg" \in installed
  /\ \E r \in Reqs : /\ req[r].pc = "done" /\ IsSome(req[r].td)
                     /\ req[r].replies = <<NoFfmpegMsg>>
                     /\ Val(req[r].td) \notin DOMAIN fs

\* the MIME types among MimeTypes that contain "audio"
AudioMimes == {Some(Str_audio_ogg), Some(Str_x_audio)}

HasAudioDocument(m) == IsSome(m.document) /\ Val(m.document).mime_type \in AudioMimes

CarriesNoMedia(m) ==
  ~m.voice /\ m.audio = None /\ ~m.video /\ ~HasAudioDocument(m)

\* the handler was called with a message
Called(r) == req[r].pc # "idle" /\ IsSome(req[r].msg)

\* C6: a request for a message with no voice, audio, video or audio-MIME
\* document has the guidance message as its one reply from its first step on,
\* and does nothing else: no get_file, no directory, no subprocess, no model.
C6_NoMediaGuidance ==
  \A r \in Reqs :
    Called(r) /\ CarriesNoMedia(Val(req[r].msg)) =>
      /\ req[r].replies = <<NoMediaMsg>>
      /\ req[r].pc \in {"reply", "done", "failed"}
      /\ req[r].fetched = <<>> /\ req[r].tg_file = None
      /\ req[r].td = None /\ mkdtemps = 0 /\ DOMAIN fs = {}
      /\ req[r].spawned = 0
      /\ req[r].whisper = None /\ constructCalls = 0 /\ model = None

\* a request for a message whose only attachment is a video/mp4 document
\* returned after the guidance reply
C6_Witness ==
  \E r \in Reqs :
    /\ req[r].pc = "done" /\ IsSome(req[r].msg)
    /\ Val(req[r].msg) = [NoAttachment EXCEPT !.document =
         Some([mime_type |-> Some(Str_video_mp4), file_name |-> Some(<<".", "A">>)])]
    /\ req[r].replies = <<NoMediaMsg>>

\* the attachment the priority voice > audio > video > audio document picks
Preferred(m) ==
  CHOOSE k \in {"voice", "audio", "video", "document"} :
    /\ k = "voice" <=> m.voice
    /\ k = "audio" <=> ~m.voice /\ m.audio # None
    /\ k = "video" <=> ~m.voice /\ m.audio = None /\ m.video
    /\ k = "document" <=> ~m.voice /\ m.audio = None /\ ~m.video

\* C7: for a message with at least one media attachment, get_file() is called
\* on the attachment of highest priority and on no other, the file downloaded
\* is that attachment's payload, and the extension is ogg for a voice note and
\* mp4 for a video.
C7_ResolverPriority ==
  \A r \in Reqs :
    Called(r) /\ ~CarriesNoMedia(Val(req[r].msg)) =>
      LET k == Preferred(Val(req[r].msg))
      IN  /\ req[r].fetched = <<k>>
          /\ IsSome(req[r].tg_file) =>
               /\ req[r].tg_file = Some(Payload(r, k))
               /\ k = "voice" => req[r].suggested_ext = Str_ogg
               /\ k = "video" => req[r].suggested_ext = Str_mp4
          /\ IsSome(req[r].td) /\ Val(req[r].td) \in DOMAIN fs =>
               fs[Val(req[r].td)].in \in {None, Some(Payload(r, k))}

\* a message carrying all four kinds: the voice note was downloaded
C7_Witness ==
  \E r \in Reqs :
    /\ Called(r)
    /\ LET m == Val(req[r].msg)
       IN  m.voice /\ m.audio # None /\ m.video /\ HasAudioDocument(m)
    /\ IsSome(req[r].td) /\ Val(req[r].td) \in DOMAIN fs
    /\ fs[Val(req[r].td)].in = Some(Payload(r, "voice"))
    /\ req[r].suggested_ext = Str_ogg

\* the file name declared by the attachment request r fetched
FetchedFileName(r) ==
  IF req[r].fetched = <<"audio">>
  THEN Val(Val(req[r].msg).audio).file_name
  ELSE Val(Val(req[r].msg).document).file_name

\* the extension hint of the spec's case 2 for a declared file name
HintOfCase2(file_name) ==
  IF file_name = None THEN Str_mp3 ELSE Lower(LastDotPart(Val(file_name)))

\* C8 (as claimed): the extension computed for an audio-MIME document is the
\* one an audio file of the same declared file name gets: the lower-cased
\* suffix of the file name, and the default audio extension without one.
C8_DocumentExtensionAsAudio ==
  \A r \in Reqs :
    /\ req[r].fetched \in {<<"audio">>, <<"document">>}
    /\ IsSome(req[r].tg_file)
    /\ FetchedFileName(r) \in {None} \cup {Some(n) : n \in SeqsUpTo(NameAlphabet, MaxNameLen) \ {<<>>}}
    => /\ req[r].suggested_ext = AudioExt(FetchedFileName(r))
       /\ req[r].suggested_ext = HintOfCase2(FetchedFileName(r))

\* every character of every segment is white space (so also: no segments)
AllWhiteSpace(segs) ==
  \A k \in 1..Len(segs) : \A i \in 1..Len(segs[k]) : IsSpace(segs[k][i])

\* C9: no reply is empty and no transcript reply has an empty body; when the
\* model yielded no segment, or only white space, the body of the transcript
\* reply is the placeholder.
C9_NeverEmptyTranscript ==
  \A r \in Reqs :
    /\ \A i \in 1..Len(req[r].replies) :
         /\ req[r].replies[i] # <<>>
         /\ IsTranscriptReply(req[r].replies[i]) => ReplyBody(req[r].replies[i]) # <<>>
    /\ IsSome(req[r].segments) /\ AllWhiteSpace(Val(req[r].segments)) =>
         /\ req[r].replies # <<>>
         /\ IsTranscriptReply(LastReply(r))
         /\ ReplyBody(LastReply(r)) = NoTextPlaceholder

\* the model yielded two segments of white space: the reply has the placeholder
C9_Witness ==
  \E r \in Reqs :
    /\ req[r].segments = Some(<< <<" ">>, <<" ", " ">> >>)
    /\ ReplyBody(LastReply(r)) = NoTextPlaceholder

\* The characters of the segments in production order, said without Join:
\* the positions <<k, i>> (character i of segment k) in lexicographic order.
Positions(segs) ==
  UNION {{<<k, i>> : i \in 1..Len(segs[k])} : k \in 1..Len(segs)}
Before(p, q) == p[1] < q[1] \/ (p[1] = q[1] /\ p[2] <= q[2])
Rank(segs, p) == Cardinality({q \in Positions(segs) : Before(q, p)})
InOrder(segs) ==
  [n \in 1..Cardinality(Positions(segs)) |->
     LET p == CHOOSE q \in Positions(segs) : Rank(segs, q) = n
     IN  segs[p[1]][p[2]]]

\* s without its leading and trailing white space, said without Strip
Trimmed(s) ==
  LET inked == {n \in 1..Len(s) : ~IsSpace(s[n])}
  IN  IF inked = {} THEN <<>>
      ELSE SubSeq(s, CHOOSE n \in inked : \A j \in inked : n <= j,
                     CHOOSE n \in inked : \A j \in inked : j <= n)

\* C10: the text of line 118 is the segments' characters in production order
\* (none added, dropped, repeated or moved) without leading and trailing white
\* space, and when that is not empty it is the body of the transcript reply.
C10_TranscriptIsOrderedConcatenation ==
  \A r \in Reqs :
    IsSome(req[r].segments) =>
      LET expected == Trimmed(InOrder(Val(req[r].segments)))
      IN  /\ req[r].text = Some(expected)
          /\ expected # <<>> => ReplyBody(LastReply(r)) = expected

\* segments " a" and "b " give the reply body "ab"
C10_Witness ==
  \E r \in Reqs :
    /\ req[r].segments = Some(<< <<" ", "a">>, <<"b", " ">> >>)
    /\ ReplyBody(LastReply(r)) = <<"a", "b">>

\* the configuration the i-th logged command found; for i past the log, the
\* configuration now
ModeAt(i) == IF i <= Len(trail) THEN trail[i].mode ELSE MODE
LangAt(i) == IF i <= Len(trail) THEN trail[i].lang ELSE TARGET_LANG

IsModeCommand(i, args) == trail[i].cmd = "mode" /\ trail[i].args = args

\* a /mode command that names neither mode, or nothing
RejectedModeCommand(i) ==
  /\ trail[i].cmd = "mode"
  /\ \/ trail[i].args = <<>>
     \/ trail[i].args[1] # "transcribe" /\ trail[i].args[1] # "translate"

ModeKeptOnInvalid ==
  \A i \in 1..Len(trail) : RejectedModeCommand(i) => ModeAt(i + 1) = ModeAt(i)

ModeStartupOrEnumerated == MODE \in {ModeAt(1), "transcribe", "translate"}

\* C11 (as claimed): a rejected /mode leaves MODE as it was; /mode translate
\* followed by /mode transcribe leaves MODE as it was before the two; MODE is
\* its start-up value or one of the two modes.
C11_ModeRoundTripToOriginal ==
  /\ ModeKeptOnInvalid
  /\ \A i \in 1..(Len(trail) - 1) :
       IsModeCommand(i, <<"translate">>) /\ IsModeCommand(i + 1, <<"transcribe">>)
         => ModeAt(i + 2) = ModeAt(i)
  /\ ModeStartupOrEnumerated

\* C11 (amended): a rejected /mode leaves MODE as it was; /mode translate
\* followed by /mode transcribe leaves MODE = "transcribe", which is the
\* value before the two only if that was "transcribe"; MODE is its start-up
\* value or one of the two modes.
C11_ModeRoundTripToTranscribe ==
  /\ ModeKeptOnInvalid
  /\ \A i \in 1..(Len(trail) - 1) :
       IsModeCommand(i, <<"translate">>) /\ IsModeCommand(i + 1, <<"transcribe">>)
         => /\ ModeAt(i + 1) = "translate"
            /\ ModeAt(i + 2) = "transcribe"
            /\ ModeAt(i + 2) = ModeAt(i) <=> ModeAt(i) = "transcribe"
  /\ ModeStartupOrEnumerated

\* /mode translate then /mode transcribe on a bot started with MODE=loud
C11_Witness ==
  /\ Len(trail) = 2
  /\ IsModeCommand(1, <<"translate">>) /\ IsModeCommand(2, <<"transcribe">>)
  /\ ModeAt(1) = "loud"
  /\ MODE = "transcribe"

Pipeline == <<"Resolving", "Downloading", "Transcoding", "Transcribing",
              "Formatting", "Done">>

IsPrefix(s, t) == Len(s) <= Len(t) /\ \A i \in 1..Len(s) : s[i] = t[i]

InStages(r, stage) == \E i \in 1..Len(req[r].stages) : req[r].stages[i] = stage
LastStage(r) == req[r].stages[Len(req[r].stages)]

\* the stages in pipeline order from the first on, none skipped or repeated,
\* or such a path cut short by Failed from a stage that is not Done
ForwardPath(stages) ==
  \/ IsPrefix(stages, Pipeline)
  \/ /\ Len(stages) >= 2
     /\ stages[Len(stages)] = "Failed"
     /\ IsPrefix(SubSeq(stages, 1, Len(stages) - 1), Pipeline)
     /\ Len(stages) - 1 < Len(Pipeline)

C12_StateOk ==
  \A r \in Reqs :
    Called(r) =>
      /\ req[r].stages # <<>>
      /\ ForwardPath(req[r].stages)
      /\ Terminal(r) <=> LastStage(r) \in {"Done", "Failed"}
      \* Failed and Done only with the directory gone
      /\ LastStage(r) \in {"Done", "Failed"} /\ IsSome(req[r].td)
           => Val(req[r].td) \notin DOMAIN fs
      \* the model only after this request's download and transcoding
      /\ InStages(r, "Transcribing")
           => /\ req[r].downloads = 1 /\ req[r].spawned = 1
              /\ req[r].fetched = <<SelectKind(Val(req[r].msg))>>
      /\ LastStage(r) = "Formatting"
           => /\ req[r].returncode = Some(0)
              /\ req[r].audio = Some(Wav(Payload(r, SelectKind(Val(req[r].msg)))))
              /\ IsSome(req[r].whisper)

C12_Step ==
  \A r \in Reqs :
    req'[r].stages # req[r].stages =>
      /\ IsPrefix(req[r].stages, req'[r].stages)
      /\ ~InStages(r, "Transcribing")
           /\ (\E i \in 1..Len(req'[r].stages) : req'[r].stages[i] = "Transcribing")
           => /\ req[r].pc = "communicate"
              /\ LastStage(r) = "Transcoding"
              /\ fs[Val(req[r].td)].in = Some(Payload(r, SelectKind(Val(req[r].msg))))

\* C12: the stages a request has been in are the pipeline's, in order from
\* Resolving with none skipped or revisited, possibly ended by Failed; stages
\* are only ever added; the model stage is entered only from Transcoding of
\* a request whose own payload was downloaded and whose own transcoding
\* succeeded; a request is in Failed (or Done) only once its directory is gone.
C12_ForwardOnlyStages == []C12_StateOk /\ [][C12_Step]_vars

\* one request went through every stage to Done while another failed in
\* Transcoding, after its directory was made
C12_Witness ==
  \E r, q \in Reqs :
    /\ req[r].stages = Pipeline
    /\ req[q].stages = <<"Resolving", "Downloading", "Transcoding", "Failed">>
    /\ IsSome(req[q].td)

GuidanceStrings == {NoMediaMsg, NoFfmpegMsg, ConvErrorMsg}

IsStampedTranscript(reply) ==
  IsTranscriptReply(reply) /\ reply[2] \in Stamps /\ reply[3] = "\n"

\* C13 (as claimed): every execution of handle_media for a message sends
\* exactly one reply, the transcript reply or one of the three guidance
\* strings: none sends two, and one that has ended has sent one.
C13_ExactlyOneReply ==
  \A r \in Reqs :
    Called(r) =>
      /\ Len(req[r].replies) <= 1
      /\ Terminal(r) => Len(req[r].replies) = 1
      /\ req[r].replies # <<>>
           => IsStampedTranscript(LastReply(r)) \/ LastReply(r) \in GuidanceStrings

\* C13 (amended): every execution of handle_media sends at most one reply,
\* the transcript reply or one of the three guidance strings; one that
\* returns normally for a message has sent exactly one; one ended by an
\* exception before its reply call (a failed get_file, download,
\* subprocess or model) has sent none.
C13_AtMostOneReply ==
  \A r \in Reqs :
    /\ Len(req[r].replies) <= 1
    /\ req[r].replies # <<>>
         => IsStampedTranscript(LastReply(r)) \/ LastReply(r) \in GuidanceStrings
    /\ req[r].pc = "done" /\ IsSome(req[r].msg) => Len(req[r].replies) = 1
    /\ req[r].pc = "done" /\ ~IsSome(req[r].msg) => req[r].replies = <<>>
    /\ req[r].pc = "failed" /\ req[r].replies # <<>>
         => req[r].stages[Len(req[r].stages) - 1] \in {"Resolving", "Downloading",
                                                       "Transcoding", "Formatting"}
    /\ InFlight(r) /\ req[r].pc # "reply" => req[r].replies = <<>>

\* one request returned after its transcript reply, another was ended by a
\* failure of the model without any reply
C13_Witness ==
  \E r, q \in Reqs :
    /\ req[r].pc = "done" /\ Len(req[r].replies) = 1
    /\ IsStampedTranscript(LastReply(r))
    /\ req[q].pc = "failed" /\ req[q].replies = <<>>
    /\ InStages(q, "Transcribing")

HasMedia(r) == Called(r) /\ SelectKind(Val(req[r].msg)) # "none"
OwnPayload(r) == Payload(r, SelectKind(Val(req[r].msg)))

C14_StateOk ==
  \A r \in Reqs :
    /\ HasMedia(r)
         => /\ req[r].fetched = <<SelectKind(Val(req[r].msg))>>
            /\ req[r].downloads <= 1
    /\ req[r].downloads = 1 => HasMedia(r)
    \* a subprocess only for a payload that was fetched
    /\ req[r].pc \in {"spawn", "communicate"}
         => fs[Val(req[r].td)].in = Some(OwnPayload(r))
    /\ req[r].spawned > 0 \/ InStages(r, "Transcribing")
         => req[r].downloads = 1 /\ InStages(r, "Transcoding")

C14_Step ==
  \A r \in Reqs :
    \* the fetch either succeeds or ends the request, which has then spawned
    \* no subprocess, called no model and sent no reply
    /\ req[r].pc = "get_file" /\ req'[r].pc # "get_file"
         => \/ req'[r].pc = "download" /\ req'[r].tg_file = Some(OwnPayload(r))
            \/ /\ req'[r].pc = "failed" /\ req'[r].spawned = 0
               /\ req'[r].downloads = 0 /\ req'[r].replies = <<>>
               /\ req'[r].stages = <<"Resolving", "Failed">>
    /\ req[r].pc = "download" /\ req'[r].pc # "download"
         => \/ /\ req'[r].pc \in {"spawn", "reply"}
               /\ fs'[Val(req[r].td)].in = Some(OwnPayload(r))
            \/ /\ req'[r].pc = "failed" /\ req'[r].spawned = 0
               /\ req'[r].replies = <<>>
               /\ req'[r].stages = <<"Resolving", "Downloading", "Failed">>
    \* a request that has ended does nothing more
    /\ Terminal(r) => req'[r] = req[r]

\* C14: a request for a message with media calls get_file once, for the
\* attachment the resolver chose, and download_to_drive at most once; when
\* get_file or download_to_drive raises the request ends there, failed, with
\* no subprocess started, no model call and no reply, and never resumes; a
\* subprocess or model call happens only after the payload was downloaded.
C14_FetchOnceFailureFatal == []C14_StateOk /\ [][C14_Step]_vars

\* a request whose download raised, while another got as far as ffmpeg
C14_Witness ==
  \E r, q \in Reqs :
    /\ req[r].stages = <<"Resolving", "Downloading", "Failed">>
    /\ req[r].replies = <<>> /\ Len(req[r].fetched) = 1 /\ req[r].spawned = 0
    /\ req[q].spawned = 1

\* the pcs of a handler that has not yet run lines 109-117
BeforeCall == {"idle", "get_file", "download", "spawn", "communicate"}

\* how many of the logged commands were handled before request 1 ran its
\* model call (they are the first of the log)
HandledBeforeCall ==
  Cardinality({i \in 1..Len(trail) : trail[i].pc \in BeforeCall})

\* C15: the task and language of the request's model call are those of the
\* configuration left by the last command handled before the call, wherever
\* the request was suspended when it was handled (not the configuration the
\* request started with), and no command handled after the call changes them.
C15_ConfigurationReadAtCall ==
  IsSome(req[1].task) =>
    /\ \A i \in 1..HandledBeforeCall : trail[i].pc \in BeforeCall
    /\ req[1].task = Some(Task(ModeAt(HandledBeforeCall + 1)))
    /\ req[1].language = Some(Language(LangAt(HandledBeforeCall + 1)))

\* the request started under transcribe, /mode translate was handled while
\* it was suspended in download or transcoding, its call used translate, and
\* /mode transcribe handled after the call left the task as it was
C15_Witness ==
  /\ IsSome(startCfg) /\ Val(startCfg)[1] = "transcribe"
  /\ Len(trail) = 2
  /\ trail[1].pc \in {"download", "spawn", "communicate"}
  /\ IsModeCommand(1, <<"translate">>)
  /\ trail[2].pc = "reply" /\ IsModeCommand(2, <<"transcribe">>)
  /\ req[1].task = Some("translate")
  /\ MODE = "transcribe"

\* the step in which request r passes task and language to model.transcribe
CallStep(r) == ~IsSome(req[r].task) /\ IsSome(req'[r].task)

C16_Step ==
  \A r \in Reqs :
    CallStep(r) =>
      /\ req[r].pc = "communicate"
      /\ Val(req'[r].task) = "translate" <=> MODE = "translate"
      /\ MODE # "translate" => Val(req'[r].task) = "transcribe"
      /\ TARGET_LANG = "" => req'[r].language = Some(None)
      /\ TARGET_LANG # "" => req'[r].language = Some(Some(TARGET_LANG))

\* C16: whatever MODE and TARGET_LANG are when a request calls the model,
\* the task is "translate" exactly when MODE is "translate" and "transcribe"
\* for every other value, and the language is TARGET_LANG, or None when
\* TARGET_LANG is empty.
C16_TaskAndLanguageFromConfiguration == [][C16_Step]_vars

\* a call under the unvalidated start-up mode "loud" with no language, and
\* another with the language set
C16_Witness ==
  \E r, q \in Reqs :
    /\ MODE = "loud"
    /\ req[r].task = Some("transcribe") /\ req[r].language = Some(None)
    /\ req[q].task = Some("transcribe") /\ req[q].language = Some(Some("he"))

\* C17: two requests never have the same temporary directory; a directory
\* that exists is that of exactly one request in flight, and holds nothing
\* but that request's payload and the waveform made from it; the waveform a
\* request passes to the model is the one made from its own payload.
C17_AudioNeverShared ==
  /\ \A r, q \in Reqs :
       r # q /\ IsSome(req[r].td) /\ IsSome(req[q].td) => req[r].td # req[q].td
  /\ \A d \in DOMAIN fs :
       \E r \in Reqs :
         /\ InFlight(r) /\ req[r].td = Some(d)
         /\ \A q \in Reqs : req[q].td = Some(d) => q = r
         /\ fs[d].in \in {None, Some(OwnPayload(r))}
         /\ fs[d].out \in {None, Some(Wav(OwnPayload(r)))}
  /\ \A r \in Reqs :
       IsSome(req[r].whisper) => req[r].audio = Some(Wav(OwnPayload(r)))

\* two requests in flight at once, each past its model call on its own
\* waveform in its own directory
C17_Witness ==
  \E r, q \in Reqs :
    /\ r # q
    /\ IsSome(req[r].audio) /\ IsSome(req[q].audio) /\ req[r].audio # req[q].audio
    /\ Val(req[r].td) \in DOMAIN fs /\ Val(req[q].td) \in DOMAIN fs
    /\ fs[Val(req[r].td)].out = req[r].audio
    /\ fs[Val(req[q].td)].out = req[q].audio

Released(r) == IsSome(req[r].td) => Val(req[r].td) \notin DOMAIN fs

\* C18: if every awaited call eventually returns or raises, then, whatever
\* other requests and commands do meanwhile, every request in flight
\* eventually is done or failed with its temporary directory removed: a
\* request that has ended never runs again, so from some point on no request
\* is in flight and no directory of a request is left.
C18_EveryRequestEnds ==
  <>[](\A r \in Reqs : ~InFlight(r) /\ Released(r))

\* the second request has ended, its directory removed, while the first,
\* started before it, is still in flight
C18_Witness ==
  /\ InFlight(1)
  /\ Terminal(2) /\ IsSome(req[2].td) /\ Released(2)

\* request r holds the model handle and has not finished with its segments
MidInference(r) ==
  IsSome(req[r].whisper) /\ ~(IsSome(req[r].segments) /\ IsSome(req[r].text))

C19_Step ==
  \A r \in Reqs :
    CallStep(r) \/ (~InStages(r, "Transcribing") /\ req'[r].pc = "failed"
                    /\ req[r].pc = "communicate" /\ constructCalls' # constructCalls)
      => /\ \A q \in Reqs : q # r => req'[q] = req[q]
         /\ MODE' = MODE /\ TARGET_LANG' = TARGET_LANG

\* C19: in no state is a request between obtaining the model handle and
\* having consumed its segments (so never two at once): the handle is
\* obtained and the segments are consumed in one step of the handler, which
\* ends at the reply await or with the handler failed, and in that step no
\* other request and no command changes anything.
C19_InferenceNotInterleaved ==
  /\ [](\A r \in Reqs :
          /\ ~MidInference(r)
          /\ IsSome(req[r].whisper) => req[r].pc = "reply" /\ req[r].replies # <<>>)
  /\ [][C19_Step]_vars

\* a request has run its inference and is at its reply await while another,
\* whose ffmpeg is still running, has yet to call the model
C19_Witness ==
  \E r, q \in Reqs :
    /\ req[r].pc = "reply" /\ IsSome(req[r].whisper) /\ IsSome(req[r].segments)
    /\ req[q].pc = "communicate" /\ ~IsSome(req[q].whisper)

\* the configurations the globals have held: the one each logged command
\* found, and the present one
ConfigsHeld == {<<ModeAt(i), LangAt(i)>> : i \in 1..(Len(trail) + 1)}

C20_StateOk ==
  IsSome(req[1].task) =>
    \E held \in ConfigsHeld :
      /\ req[1].task = Some(Task(held[1]))
      /\ req[1].language = Some(Language(held[2]))

C20_Step ==
  CallStep(1) =>
    /\ trail' = trail /\ MODE' = MODE /\ TARGET_LANG' = TARGET_LANG
    /\ <<MODE, TARGET_LANG>> \in ConfigsHeld
    /\ req'[1].task = Some(Task(MODE))
    /\ req'[1].language = Some(Language(TARGET_LANG))

\* C20: the task and the language of a model call come from one (MODE,
\* TARGET_LANG) pair that the globals held together at one time, never from
\* the mode of one configuration and the language of another: both are read
\* in the one step of the call, in which no command is handled.
C20_NoTornConfigurationRead == []C20_StateOk /\ [][C20_Step]_vars

\* /lang he and then /mode translate were handled while the request was in
\* flight, before its call: it used translate with he, not a mixture with
\* the pair it started under
C20_Witness ==
  /\ startCfg = Some(<<"transcribe", "">>)
  /\ Len(trail) = 2
  /\ trail[1].cmd = "lang" /\ trail[1].args = <<"he">>
  /\ trail[1].pc \in {"get_file", "download"}
  /\ IsModeCommand(2, <<"translate">>) /\ trail[2].pc \in {"spawn", "communicate"}
  /\ req[1].task = Some("translate")
  /\ req[1].language = Some(Some("he"))
====
